---- MODULE Spec2Model ----
(***************************************************************************)
(* Model of ola::plugin::uartdmx::UartDmxThread                            *)
(* (plugins/uartdmx/UartDmxThread.cpp): the DMX-over-UART output thread.   *)
(*                                                                         *)
(* Three execution contexts are interleaved:                               *)
(*   - the controller, which calls Start(), Stop() and the destructor;     *)
(*   - the producer, which calls WriteDMX();                               *)
(*   - the pacer, the thread body Run().                                   *)
(* Every statement of the source that touches shared state (the two        *)
(* mutexes, m_term, m_buffer) is an action of its own, so that all         *)
(* interleavings the mutexes allow are explored.                           *)
(***************************************************************************)
EXTENDS Integers, Sequences, FiniteSets, TLC

(* ------------------------------ bounds -------------------------------- *)

\* Number of loop iterations the pacer may begin.
MaxCycles == 2
\* Number of WriteDMX() calls the producer may make.
MaxPublish == 2
\* Number of explicit Stop() calls (the destructor's Stop() comes on top).
MaxStops == 1
\* Channels per frame (a DmxBuffer holds up to 512).
NChan == 2
\* The same two caps for the runs checked under fairness.
LiveCycles == 1
LivePublish == 1

(* ------------------------- program constants -------------------------- *)

\* const int threshold = 3;  (milliseconds)
threshold == 3
\* usleep(1000) of the calibration
CalibSleep == 1000
\* TimeInterval(1e6): the report interval in microseconds
m_printinterval == 1000000
\* DMX_MAB, the mark-after-break hold in microseconds (UartDmxThread.h)
DMX_MAB == 16

(* --------------------------- input domains ---------------------------- *)

\* The frames the producer publishes: every channel of frame v holds v.
Frame(v) == [i \in 1..NChan |-> v]
Frames == {Frame(1), Frame(2)}
\* A default-constructed DmxBuffer: length 0.
EmptyFrame == << >>

\* breakt and malft handed to the constructor (microseconds).
BreakTimes == {100}
MalfTimes == {500000}
\* By how much the platform's usleep() overshoots a request (microseconds).
Overshoots == {0, 3000}

VARIABLES
  \* ---- members of UartDmxThread
  m_granularity,    \* "UNKNOWN" | "GOOD" | "BAD"
  m_term,           \* termination flag
  m_breakt,         \* break time
  m_malft,          \* frame time
  m_buffer,         \* the published DmxBuffer
  m_term_mutex,     \* holder of the mutex: "none" | "ctrl" | "pacer"
  m_buffer_mutex,   \* holder of the mutex: "none" | "producer" | "pacer"
  \* ---- ola::thread::Thread base
  thrState,         \* "new" | "running" | "joined"
  \* ---- locals of Run()
  pcP,              \* position of the pacer
  buffer,           \* the working DmxBuffer
  cpyP,             \* progress of buffer.Set(m_buffer)
  err_breakstart, err_breakstop, err_write, frames,
  lastprint,
  ts1,              \* local of CheckTimeGranularity(): the time before the sleep
  \* ---- the producer inside WriteDMX()
  pcW, wArg, cpyW, wRet,
  \* ---- the controller
  pcC, inDtor, stopStarted, stopRet, startRet, nStops,
  \* ---- collaborators
  clock,            \* Clock::CurrentTime, microseconds
  overshoot,        \* overshoot of usleep() on this platform
  \* ---- observation of the run (no counterpart in the code)
  cycles,           \* loop iterations begun
  cycleLog,         \* widget calls and sleeps of the current iteration
  granWrites,       \* assignments to m_granularity
  pubLog,           \* frames whose WriteDMX() has returned, in order
  acqN,             \* Len(pubLog) when the pacer last locked m_buffer_mutex
  acqBuf,           \* m_buffer when the pacer last locked m_buffer_mutex
  written,          \* frames handed to Write in this iteration
  stopDone,         \* a Stop() on a started thread has returned
  lateOps,          \* widget calls made while stopDone
  termOps,          \* widget calls made per kind since m_term was set
  cyclesSinceFlush, \* iterations completed since the last report
  failsSinceFlush,  \* failed widget calls per kind since the last report
  report,           \* what the last housekeeping block printed, if it did
  cyc0,             \* the error counters when the iteration began
  raced,            \* this iteration's copy-out met a WriteDMX() in progress
  capCycles,        \* loop iterations explored in this run
  capPublish,       \* WriteDMX() calls explored in this run
  widgetFault       \* how the widget behaves in this run (see WidgetResults)

prog == <<m_granularity, m_term, m_breakt, m_malft, m_buffer, m_term_mutex,
          m_buffer_mutex, thrState>>
pacerVars == <<pcP, buffer, cpyP, err_breakstart, err_breakstop, err_write,
               frames, lastprint, ts1>>
prodVars == <<pcW, wArg, cpyW, wRet>>
ctrlVars == <<pcC, inDtor, stopStarted, stopRet, startRet, nStops>>
envVars == <<clock, overshoot>>
obsVars == <<cycles, cycleLog, granWrites, pubLog, acqN, acqBuf,
             written, stopDone, lateOps, termOps,
             cyclesSinceFlush, failsSinceFlush, report, cyc0, raced>>
capVars == <<capCycles, capPublish, widgetFault>>
vars == <<prog, pacerVars, prodVars, ctrlVars, envVars, obsVars, capVars>>

WidgetOps == {"IsOpen", "SetupOutput", "SetBreakTrue", "SetBreakFalse", "Write"}
NoCounts == [o \in WidgetOps \cup {"pass"} |-> 0]
NoFails == [o \in {"SetBreakTrue", "SetBreakFalse", "Write"} |-> 0]
NoReport == [printed |-> FALSE, frames |-> 0, cycles |-> 0]

(* --------------------------- pure helpers ----------------------------- *)

\* TimeInterval::InMilliSeconds(): whole milliseconds of an interval given
\* in microseconds (tv_sec * 1000 + tv_usec / 1000, integer division).
InMilliSeconds(us) == us \div 1000

\* usleep(d) on this platform: the time that passes.
UsleepElapsed(d) == d + overshoot

\* DmxBuffer::Set(const DmxBuffer&), one step of it: step k copies channel
\* k; the first step also takes over the length. k counts the channels
\* copied so far.
CopyStep(dest, src, k) ==
  [i \in 1..Len(src) |-> IF i = k + 1 THEN src[i]
                         ELSE IF i <= Len(dest) THEN dest[i] ELSE 0]
CopyDone(src, k) == k >= Len(src)

\* Bookkeeping of one widget call.
Touch(op) ==
  /\ lateOps' = IF stopDone THEN lateOps + 1 ELSE lateOps
  /\ termOps' = IF m_term THEN [termOps EXCEPT ![op] = @ + 1] ELSE termOps

(* ------------------------------- Init --------------------------------- *)

\* UartDmxThread::UartDmxThread(widget, breakt, malft). The locals of Run()
\* do not exist yet; Run() assigns its counters and lastprint (ZeroCounters)
\* before it reads them, so the values given here are never observed.
Construct(breakt, malft) ==
  /\ m_granularity = "UNKNOWN"
  /\ m_term = FALSE
  /\ m_breakt = breakt
  /\ m_malft = malft
  /\ m_buffer = EmptyFrame
  /\ m_term_mutex = "none"
  /\ m_buffer_mutex = "none"
  /\ thrState = "new"
  /\ pcP = "idle"
  /\ buffer = EmptyFrame
  /\ cpyP = 0
  /\ err_breakstart = 0 /\ err_breakstop = 0 /\ err_write = 0 /\ frames = 0
  /\ lastprint = 0
  /\ ts1 = 0
  /\ pcW = "idle" /\ wArg = EmptyFrame /\ cpyW = 0 /\ wRet = FALSE
  /\ pcC = "idle" /\ inDtor = FALSE /\ stopStarted = FALSE
  /\ stopRet = FALSE /\ startRet = FALSE /\ nStops = 0
  /\ clock = 0
  /\ cycles = 0
  /\ cycleLog = << >>
  /\ granWrites = 0
  /\ pubLog = << >>
  /\ acqN = 0
  /\ acqBuf = EmptyFrame
  /\ written = << >>
  /\ stopDone = FALSE
  /\ lateOps = 0
  /\ termOps = NoCounts
  /\ cyclesSinceFlush = 0
  /\ failsSinceFlush = NoFails
  /\ report = NoReport
  /\ cyc0 = <<0, 0, 0>>
  /\ raced = FALSE

Constructed == \E breakt \in BreakTimes, malft \in MalfTimes :
                 Construct(breakt, malft)

Init ==
  /\ Constructed
  /\ overshoot \in Overshoots
  /\ capCycles = MaxCycles
  /\ capPublish = MaxPublish
  /\ widgetFault = "any"

\* The same object, explored for fewer iterations and calls.
InitLive ==
  /\ Constructed
  /\ overshoot \in Overshoots
  /\ capCycles = LiveCycles
  /\ capPublish = LivePublish
  /\ widgetFault = "any"

(* ---------------------------- controller ------------------------------ *)

\* ola::thread::Thread::Start(): begins the execution context once.
Start ==
  /\ pcC = "idle"
  /\ IF thrState = "new"
       THEN /\ thrState' = "running"
            /\ pcP' = "calib"
            /\ startRet' = TRUE
       ELSE /\ startRet' = FALSE
            /\ UNCHANGED <<thrState, pcP>>
  /\ UNCHANGED <<m_granularity, m_term, m_breakt, m_malft, m_buffer,
                 m_term_mutex, m_buffer_mutex>>
  /\ UNCHANGED <<buffer, cpyP, err_breakstart, err_breakstop, err_write,
                 frames, lastprint, ts1>>
  /\ UNCHANGED <<pcC, inDtor, stopStarted, stopRet, nStops>>
  /\ UNCHANGED <<prodVars, envVars, obsVars>>
  /\ UNCHANGED capVars

\* A caller enters Stop().
StopCall ==
  /\ pcC = "idle"
  /\ nStops < MaxStops
  /\ pcC' = "stop_lock"
  /\ nStops' = nStops + 1
  /\ stopStarted' = (thrState # "new")
  /\ UNCHANGED <<inDtor, stopRet, startRet>>
  /\ UNCHANGED <<prog, pacerVars, prodVars, envVars, obsVars>>
  /\ UNCHANGED capVars

\* UartDmxThread::~UartDmxThread() enters Stop(). No other thread is inside
\* a method of the object being destroyed.
Destroy ==
  /\ pcC = "idle"
  /\ pcW = "idle"
  /\ pcC' = "stop_lock"
  /\ inDtor' = TRUE
  /\ stopStarted' = (thrState # "new")
  /\ UNCHANGED <<stopRet, startRet, nStops>>
  /\ UNCHANGED <<prog, pacerVars, prodVars, envVars, obsVars>>
  /\ UNCHANGED capVars

\* Stop(): MutexLocker locker(&m_term_mutex)
StopLock ==
  /\ pcC = "stop_lock"
  /\ m_term_mutex = "none"
  /\ m_term_mutex' = "ctrl"
  /\ pcC' = "stop_set"
  /\ UNCHANGED <<m_granularity, m_term, m_breakt, m_malft, m_buffer,
                 m_buffer_mutex, thrState>>
  /\ UNCHANGED <<inDtor, stopStarted, stopRet, startRet, nStops>>
  /\ UNCHANGED <<pacerVars, prodVars, envVars, obsVars>>
  /\ UNCHANGED capVars

\* Stop() that takes and releases the mutex but leaves the flag alone.
StopSetTerm_Forget ==
  /\ pcC = "stop_set"
  /\ m_term' = m_term
  /\ m_term_mutex' = "none"
  /\ pcC' = "stop_join"
  /\ UNCHANGED <<m_granularity, m_breakt, m_malft, m_buffer, m_buffer_mutex,
                 thrState>>
  /\ UNCHANGED <<inDtor, stopStarted, stopRet, startRet, nStops>>
  /\ UNCHANGED <<pacerVars, prodVars, envVars, obsVars>>
  /\ UNCHANGED capVars

\* Stop() with Join() inside the locker's scope: the mutex stays held.
StopSetTerm_HoldsLock ==
  /\ pcC = "stop_set"
  /\ m_term' = TRUE
  /\ pcC' = "stop_join"
  /\ UNCHANGED <<m_granularity, m_breakt, m_malft, m_buffer, m_term_mutex,
                 m_buffer_mutex, thrState>>
  /\ UNCHANGED <<inDtor, stopStarted, stopRet, startRet, nStops>>
  /\ UNCHANGED <<pacerVars, prodVars, envVars, obsVars>>
  /\ UNCHANGED capVars

\* Stop(): m_term = true; and the end of the locker's scope
StopSetTerm ==
  /\ pcC = "stop_set"
  /\ m_term' = TRUE
  /\ m_term_mutex' = "none"
  /\ pcC' = "stop_join"
  /\ UNCHANGED <<m_granularity, m_breakt, m_malft, m_buffer, m_buffer_mutex,
                 thrState>>
  /\ UNCHANGED <<inDtor, stopStarted, stopRet, startRet, nStops>>
  /\ UNCHANGED <<pacerVars, prodVars, envVars, obsVars>>
  /\ UNCHANGED capVars

\* ola::thread::Thread::Join(): fails at once on a thread that is not
\* running, otherwise waits until Run() has returned.
JoinCanReturn == thrState = "running" => pcP = "done"
JoinResult == thrState = "running"

\* Stop() returning without waiting for the thread.
StopJoin_NoWait ==
  /\ pcC = "stop_join"
  /\ stopRet' = TRUE
  /\ pcC' = IF inDtor THEN "destroyed" ELSE "idle"
  /\ stopDone' = (stopDone \/ stopStarted)
  /\ UNCHANGED <<inDtor, stopStarted, startRet, nStops>>
  /\ UNCHANGED <<cycles, cycleLog, granWrites, pubLog, acqN, acqBuf, written,
                 lateOps, termOps, cyclesSinceFlush, failsSinceFlush, report,
                 cyc0, raced>>
  /\ UNCHANGED <<prog, pacerVars, prodVars, envVars>>
  /\ UNCHANGED capVars

\* Stop(): return Join();
StopJoin ==
  /\ pcC = "stop_join"
  /\ JoinCanReturn
  /\ stopRet' = JoinResult
  /\ thrState' = IF thrState = "running" THEN "joined" ELSE thrState
  /\ pcC' = IF inDtor THEN "destroyed" ELSE "idle"
  /\ stopDone' = (stopDone \/ stopStarted)
  /\ UNCHANGED <<inDtor, stopStarted, startRet, nStops>>
  /\ UNCHANGED <<m_granularity, m_term, m_breakt, m_malft, m_buffer,
                 m_term_mutex, m_buffer_mutex>>
  /\ UNCHANGED <<cycles, cycleLog, granWrites, pubLog, acqN, acqBuf, written,
                 lateOps, termOps, cyclesSinceFlush, failsSinceFlush, report,
                 cyc0, raced>>
  /\ UNCHANGED <<pacerVars, prodVars, envVars>>
  /\ UNCHANGED capVars

(* ----------------------------- producer ------------------------------- *)

\* A caller enters WriteDMX(buffer) on a live object.
WriteDMXCall ==
  /\ pcW = "idle"
  /\ ~inDtor
  /\ Len(pubLog) < capPublish
  /\ \E f \in Frames : wArg' = f
  /\ pcW' = "lock"
  /\ UNCHANGED <<cpyW, wRet>>
  /\ UNCHANGED <<prog, pacerVars, ctrlVars, envVars, obsVars>>
  /\ UNCHANGED capVars

\* WriteDMX() entering its body without taking the mutex.
WriteDMXLock_NoLock ==
  /\ pcW = "lock"
  /\ pcW' = "copy"
  /\ cpyW' = 0
  /\ UNCHANGED <<wArg, wRet>>
  /\ UNCHANGED <<prog, pacerVars, ctrlVars, envVars, obsVars>>
  /\ UNCHANGED capVars

\* WriteDMX(): MutexLocker locker(&m_buffer_mutex)
WriteDMXLock ==
  /\ pcW = "lock"
  /\ m_buffer_mutex = "none"
  /\ m_buffer_mutex' = "producer"
  /\ pcW' = "copy"
  /\ cpyW' = 0
  /\ UNCHANGED <<wArg, wRet>>
  /\ UNCHANGED <<m_granularity, m_term, m_breakt, m_malft, m_buffer,
                 m_term_mutex, thrState>>
  /\ UNCHANGED <<pacerVars, ctrlVars, envVars, obsVars>>
  /\ UNCHANGED capVars

\* A WriteDMX() whose copy also lands in the pacer's working buffer, as if
\* the two buffers were one object shared by reference.
WriteDMXCopy_Shared ==
  /\ pcW = "copy"
  /\ ~CopyDone(wArg, cpyW)
  /\ m_buffer' = CopyStep(m_buffer, wArg, cpyW)
  /\ buffer' = CopyStep(buffer, wArg, cpyW)
  /\ cpyW' = cpyW + 1
  /\ UNCHANGED <<pcW, wArg, wRet>>
  /\ UNCHANGED <<m_granularity, m_term, m_breakt, m_malft, m_term_mutex,
                 m_buffer_mutex, thrState>>
  /\ raced' = (raced \/ pcP = "buf_lock")
  /\ UNCHANGED <<cycles, cycleLog, granWrites, pubLog, acqN, acqBuf, written,
                 stopDone, lateOps, termOps, cyclesSinceFlush,
                 failsSinceFlush, report, cyc0>>
  /\ UNCHANGED <<pcP, cpyP, err_breakstart, err_breakstop, err_write, frames,
                 lastprint, ts1>>
  /\ UNCHANGED <<ctrlVars, envVars>>
  /\ UNCHANGED capVars

\* WriteDMX(): m_buffer.Set(buffer), one step of the copy
WriteDMXCopy ==
  /\ pcW = "copy"
  /\ ~CopyDone(wArg, cpyW)
  /\ m_buffer' = CopyStep(m_buffer, wArg, cpyW)
  /\ cpyW' = cpyW + 1
  /\ UNCHANGED <<pcW, wArg, wRet>>
  /\ UNCHANGED <<m_granularity, m_term, m_breakt, m_malft, m_term_mutex,
                 m_buffer_mutex, thrState>>
  /\ raced' = (raced \/ pcP = "buf_lock")
  /\ UNCHANGED <<cycles, cycleLog, granWrites, pubLog, acqN, acqBuf, written,
                 stopDone, lateOps, termOps, cyclesSinceFlush,
                 failsSinceFlush, report, cyc0>>
  /\ UNCHANGED <<pacerVars, ctrlVars, envVars>>
  /\ UNCHANGED capVars

\* WriteDMX(): return true; and the end of the locker's scope
WriteDMXReturn ==
  /\ pcW = "copy"
  /\ CopyDone(wArg, cpyW)
  /\ m_buffer_mutex' = IF m_buffer_mutex = "producer" THEN "none"
                                                      ELSE m_buffer_mutex
  /\ wRet' = TRUE
  /\ pcW' = "idle"
  /\ pubLog' = Append(pubLog, wArg)
  /\ UNCHANGED <<wArg, cpyW>>
  /\ UNCHANGED <<m_granularity, m_term, m_breakt, m_malft, m_buffer,
                 m_term_mutex, thrState>>
  /\ UNCHANGED <<cycles, cycleLog, granWrites, acqN, acqBuf, written,
                 stopDone, lateOps, termOps, cyclesSinceFlush,
                 failsSinceFlush, report, cyc0, raced>>
  /\ UNCHANGED <<pacerVars, ctrlVars, envVars>>
  /\ UNCHANGED capVars

(* ------------------------------- pacer -------------------------------- *)

members == <<m_granularity, m_term, m_breakt, m_malft, m_buffer,
             m_term_mutex, m_buffer_mutex, thrState>>
counters == <<err_breakstart, err_breakstop, err_write, frames>>

\* CheckTimeGranularity(): interval.InMilliSeconds() > threshold ? BAD : GOOD
Classify(interval) ==
  IF InMilliSeconds(interval) > threshold THEN "BAD" ELSE "GOOD"

\* Run(): CheckTimeGranularity(), up to the return of its sleep:
\* clock.CurrentTime(&ts1); usleep(1000). The other threads run while the
\* pacer sleeps.
CheckTimeGranularitySleep ==
  /\ pcP = "calib"
  /\ ts1' = clock
  /\ clock' = clock + UsleepElapsed(CalibSleep)
  /\ pcP' = "calib_slept"
  /\ UNCHANGED <<buffer, cpyP, counters, lastprint>>
  /\ UNCHANGED overshoot
  /\ UNCHANGED <<members, prodVars, ctrlVars, obsVars>>
  /\ UNCHANGED capVars

\* Run(): CheckTimeGranularity(), after the sleep: clock.CurrentTime(&ts2);
\* interval = ts2 - ts1; the assignment of m_granularity
CheckTimeGranularity ==
  /\ pcP = "calib_slept"
  /\ LET ts2 == clock
         interval == ts2 - ts1
     IN m_granularity' = Classify(interval)
  /\ granWrites' = granWrites + 1
  /\ pcP' = "isopen"
  /\ UNCHANGED <<m_term, m_breakt, m_malft, m_buffer, m_term_mutex,
                 m_buffer_mutex, thrState>>
  /\ UNCHANGED <<buffer, cpyP, counters, lastprint, ts1>>
  /\ UNCHANGED <<clock, overshoot>>
  /\ UNCHANGED <<cycles, cycleLog, pubLog, acqN, acqBuf, written, stopDone,
                 lateOps, termOps, cyclesSinceFlush, failsSinceFlush, report,
                 cyc0, raced>>
  /\ UNCHANGED <<prodVars, ctrlVars>>
  /\ UNCHANGED capVars

\* Run(): if (!m_widget->IsOpen())
IsOpenCheck ==
  /\ pcP = "isopen"
  /\ \E open \in BOOLEAN :
       /\ cycleLog' = Append(cycleLog, <<"IsOpen", open>>)
       /\ pcP' = IF open THEN "zero" ELSE "setup"
  /\ Touch("IsOpen")
  /\ UNCHANGED <<buffer, cpyP, counters, lastprint, ts1>>
  /\ UNCHANGED <<cycles, granWrites, pubLog, acqN, acqBuf, written, stopDone,
                 cyclesSinceFlush, failsSinceFlush, report, cyc0, raced>>
  /\ UNCHANGED <<members, prodVars, ctrlVars, envVars>>
  /\ UNCHANGED capVars

\* Run(): m_widget->SetupOutput(); the result is not looked at
SetupOutput ==
  /\ pcP = "setup"
  /\ \E ok \in BOOLEAN : cycleLog' = Append(cycleLog, <<"SetupOutput", ok>>)
  /\ Touch("SetupOutput")
  /\ pcP' = "zero"
  /\ UNCHANGED <<buffer, cpyP, counters, lastprint, ts1>>
  /\ UNCHANGED <<clock, overshoot>>
  /\ UNCHANGED <<cycles, granWrites, pubLog, acqN, acqBuf, written, stopDone,
                 cyclesSinceFlush, failsSinceFlush, report, cyc0, raced>>
  /\ UNCHANGED <<members, prodVars, ctrlVars>>
  /\ UNCHANGED capVars

\* A loop with its test at the bottom (do ... while (!m_term)): the first
\* iteration begins without a look at the flag.
ZeroCounters_SkipsTest ==
  /\ pcP = "zero"
  /\ err_breakstart' = 0
  /\ err_breakstop' = 0
  /\ err_write' = 0
  /\ frames' = 0
  /\ lastprint' = clock
  /\ pcP' = "buf_lock"
  /\ UNCHANGED <<buffer, cpyP, ts1>>
  /\ cyc0' = <<0, 0, 0>>
  /\ UNCHANGED <<cycles, cycleLog, granWrites, pubLog, acqN, acqBuf, written,
                 stopDone, lateOps, termOps, cyclesSinceFlush,
                 failsSinceFlush, report, raced>>
  /\ UNCHANGED <<members, prodVars, ctrlVars, envVars>>
  /\ UNCHANGED capVars

\* Run(): zero counters; clock.CurrentTime(&lastprint)
ZeroCounters ==
  /\ pcP = "zero"
  /\ err_breakstart' = 0
  /\ err_breakstop' = 0
  /\ err_write' = 0
  /\ frames' = 0
  /\ lastprint' = clock
  /\ pcP' = "term_lock"
  /\ UNCHANGED <<buffer, cpyP, ts1>>
  /\ cyc0' = <<0, 0, 0>>
  /\ UNCHANGED <<cycles, cycleLog, granWrites, pubLog, acqN, acqBuf, written,
                 stopDone, lateOps, termOps, cyclesSinceFlush,
                 failsSinceFlush, report, raced>>
  /\ UNCHANGED <<members, prodVars, ctrlVars, envVars>>
  /\ UNCHANGED capVars

\* Run(): MutexLocker locker(&m_term_mutex)
CheckTermLock ==
  /\ pcP = "term_lock"
  /\ m_term_mutex = "none"
  /\ cycles < capCycles \/ m_term
  /\ m_term_mutex' = "pacer"
  /\ pcP' = "term_check"
  /\ UNCHANGED <<m_granularity, m_term, m_breakt, m_malft, m_buffer,
                 m_buffer_mutex, thrState>>
  /\ UNCHANGED <<buffer, cpyP, counters, lastprint, ts1>>
  /\ UNCHANGED <<prodVars, ctrlVars, envVars, obsVars>>
  /\ UNCHANGED capVars

\* A loop that never looks at the flag.
LoopExits_Never(term) == FALSE

\* Run(): if (m_term) break;
LoopExits(term) == term

\* A pacer that clears the flag once it has seen it.
CheckTerm_ClearsFlag ==
  /\ pcP = "term_check"
  /\ IF LoopExits(m_term)
       THEN /\ pcP' = "done"
            /\ m_term' = FALSE
            /\ UNCHANGED <<cycles, cycleLog, written, raced, termOps>>
       ELSE /\ cycles < capCycles
            /\ pcP' = "buf_lock"
            /\ cycles' = cycles + 1
            /\ cycleLog' = << >>
            /\ written' = << >>
            /\ raced' = FALSE
            /\ UNCHANGED <<m_term, termOps>>
  /\ m_term_mutex' = IF m_term_mutex = "pacer" THEN "none" ELSE m_term_mutex
  /\ UNCHANGED <<m_granularity, m_breakt, m_malft, m_buffer,
                 m_buffer_mutex, thrState>>
  /\ UNCHANGED <<buffer, cpyP, counters, lastprint, ts1>>
  /\ UNCHANGED <<granWrites, pubLog, acqN, acqBuf, stopDone, lateOps,
                 cyclesSinceFlush, failsSinceFlush, report, cyc0>>
  /\ UNCHANGED <<prodVars, ctrlVars, envVars>>
  /\ UNCHANGED capVars

\* Run(): the test of m_term and the end of the locker's scope. An
\* iteration begins when the test lets the pacer through.
CheckTerm ==
  /\ pcP = "term_check"
  /\ IF LoopExits(m_term)
       THEN /\ pcP' = "done"
            /\ UNCHANGED <<cycles, cycleLog, written, raced, termOps>>
       ELSE /\ cycles < capCycles
            /\ pcP' = "buf_lock"
            /\ cycles' = cycles + 1
            /\ cycleLog' = << >>
            /\ written' = << >>
            /\ raced' = FALSE
            /\ termOps' = IF m_term THEN [termOps EXCEPT !["pass"] = @ + 1]
                                     ELSE termOps
  /\ m_term_mutex' = IF m_term_mutex = "pacer" THEN "none" ELSE m_term_mutex
  /\ UNCHANGED <<m_granularity, m_term, m_breakt, m_malft, m_buffer,
                 m_buffer_mutex, thrState>>
  /\ UNCHANGED <<buffer, cpyP, counters, lastprint, ts1>>
  /\ UNCHANGED <<granWrites, pubLog, acqN, acqBuf, stopDone, lateOps,
                 cyclesSinceFlush, failsSinceFlush, report, cyc0>>
  /\ UNCHANGED <<prodVars, ctrlVars, envVars>>
  /\ UNCHANGED capVars

\* Run(): MutexLocker locker(&m_buffer_mutex)
AcquireLock ==
  /\ pcP = "buf_lock"
  /\ m_buffer_mutex = "none"
  /\ m_buffer_mutex' = "pacer"
  /\ pcP' = "buf_copy"
  /\ cpyP' = 0
  /\ acqN' = Len(pubLog)
  /\ acqBuf' = m_buffer
  /\ UNCHANGED <<m_granularity, m_term, m_breakt, m_malft, m_buffer,
                 m_term_mutex, thrState>>
  /\ UNCHANGED <<buffer, counters, lastprint, ts1>>
  /\ UNCHANGED <<cycles, cycleLog, granWrites, pubLog, written, stopDone,
                 lateOps, termOps, cyclesSinceFlush, failsSinceFlush, report,
                 cyc0, raced>>
  /\ UNCHANGED <<prodVars, ctrlVars, envVars>>
  /\ UNCHANGED capVars

\* The copy-out done in the first iteration only, as if hoisted out of the
\* loop.
AcquireCopy_Hoisted ==
  /\ pcP = "buf_copy"
  /\ ~CopyDone(m_buffer, cpyP)
  /\ buffer' = IF cycles = 1 THEN CopyStep(buffer, m_buffer, cpyP) ELSE buffer
  /\ cpyP' = cpyP + 1
  /\ UNCHANGED <<pcP, counters, lastprint, ts1>>
  /\ raced' = (raced \/ pcW = "lock")
  /\ UNCHANGED <<cycles, cycleLog, granWrites, pubLog, acqN, acqBuf, written,
                 stopDone, lateOps, termOps, cyclesSinceFlush,
                 failsSinceFlush, report, cyc0>>
  /\ UNCHANGED <<members, prodVars, ctrlVars, envVars>>
  /\ UNCHANGED capVars

\* Run(): buffer.Set(m_buffer), one step of the copy
AcquireCopy ==
  /\ pcP = "buf_copy"
  /\ ~CopyDone(m_buffer, cpyP)
  /\ buffer' = CopyStep(buffer, m_buffer, cpyP)
  /\ cpyP' = cpyP + 1
  /\ UNCHANGED <<pcP, counters, lastprint, ts1>>
  /\ raced' = (raced \/ pcW = "lock")
  /\ UNCHANGED <<cycles, cycleLog, granWrites, pubLog, acqN, acqBuf, written,
                 stopDone, lateOps, termOps, cyclesSinceFlush,
                 failsSinceFlush, report, cyc0>>
  /\ UNCHANGED <<members, prodVars, ctrlVars, envVars>>
  /\ UNCHANGED capVars

\* Run(): the end of the locker's scope
AcquireUnlock ==
  /\ pcP = "buf_copy"
  /\ CopyDone(m_buffer, cpyP)
  /\ m_buffer_mutex' = IF m_buffer_mutex = "pacer" THEN "none"
                                                   ELSE m_buffer_mutex
  /\ pcP' = "break_start"
  /\ UNCHANGED <<m_granularity, m_term, m_breakt, m_malft, m_buffer,
                 m_term_mutex, thrState>>
  /\ UNCHANGED <<buffer, cpyP, counters, lastprint, ts1>>
  /\ UNCHANGED <<prodVars, ctrlVars, envVars, obsVars>>
  /\ UNCHANGED capVars

\* A failure counted on the wrong counter.
CountFailure_Shifted(op) ==
  /\ err_breakstart' = err_breakstart
  /\ err_breakstop' = err_breakstop + (IF op = "SetBreakTrue" THEN 1 ELSE 0)
  /\ err_write' = err_write + (IF op \in {"SetBreakFalse", "Write"} THEN 1 ELSE 0)

\* Run(): err_breakstart++ / err_breakstop++ / err_write++
CountFailure(op) ==
  /\ err_breakstart' = err_breakstart + (IF op = "SetBreakTrue" THEN 1 ELSE 0)
  /\ err_breakstop' = err_breakstop + (IF op = "SetBreakFalse" THEN 1 ELSE 0)
  /\ err_write' = err_write + (IF op = "Write" THEN 1 ELSE 0)

\* A failure that ends Run().
OnFailure_Abort == "done"

\* A failure that is counted and then goes on to the Write.
OnFailure_ToWrite == "write"

\* A failure that leaves the iteration without the frame sleep.
OnFailure_SkipSleep == "housekeeping"

\* Run(): goto framesleep;
OnFailure == "framesleep"

\* Holds slept whatever the calibration found.
HoldSleeps_Always(g) == TRUE

\* Run(): if (m_granularity == GOOD)
HoldSleeps(g) == g = "GOOD"

\* What a widget call may return: anything, or, in a run with a steady
\* fault, failure for the one call named and success for the others.
Faults == {"none", "SetBreakTrue", "SetBreakFalse", "Write"}
WidgetResults(op) ==
  IF widgetFault = "any" THEN BOOLEAN ELSE {widgetFault # op}

\* One widget call of the iteration: its result, the counter of a failure
\* and where the pacer goes next.
WidgetStep(op, ok, next) ==
  /\ Touch(op)
  /\ cycleLog' = Append(cycleLog, <<op, ok>>)
  /\ IF ok
       THEN /\ pcP' = next
            /\ UNCHANGED <<err_breakstart, err_breakstop, err_write>>
            /\ UNCHANGED failsSinceFlush
       ELSE /\ pcP' = OnFailure
            /\ CountFailure(op)
            /\ failsSinceFlush' = [failsSinceFlush EXCEPT ![op] = @ + 1]
  /\ UNCHANGED <<buffer, cpyP, frames, lastprint, ts1>>
  /\ UNCHANGED <<cycles, granWrites, pubLog, acqN, acqBuf, stopDone,
                 cyclesSinceFlush, report, cyc0, raced>>
  /\ UNCHANGED <<members, prodVars, ctrlVars, envVars>>
  /\ UNCHANGED capVars

\* One hold of the iteration: usleep(d) when the calibration allows it.
HoldStep(d, next) ==
  /\ IF HoldSleeps(m_granularity)
       THEN /\ clock' = clock + UsleepElapsed(d)
            /\ cycleLog' = Append(cycleLog, <<"usleep", d>>)
       ELSE UNCHANGED <<clock, cycleLog>>
  /\ pcP' = next
  /\ UNCHANGED <<buffer, cpyP, counters, lastprint, ts1>>
  /\ UNCHANGED overshoot
  /\ UNCHANGED <<cycles, granWrites, pubLog, acqN, acqBuf, written, stopDone,
                 lateOps, termOps, cyclesSinceFlush, failsSinceFlush, report,
                 cyc0, raced>>
  /\ UNCHANGED <<members, prodVars, ctrlVars>>
  /\ UNCHANGED capVars

\* Run(): if (!m_widget->SetBreak(true)) { err_breakstart++; goto framesleep; }
BreakStart ==
  /\ pcP = "break_start"
  /\ \E ok \in WidgetResults("SetBreakTrue") : WidgetStep("SetBreakTrue", ok, "break_hold")
  /\ UNCHANGED written

\* Run(): if (m_granularity == GOOD) usleep(m_breakt);
BreakHold ==
  /\ pcP = "break_hold"
  /\ HoldStep(m_breakt, "break_stop")

\* Run(): if (!m_widget->SetBreak(false)) { err_breakstop++; goto framesleep; }
BreakStop ==
  /\ pcP = "break_stop"
  /\ \E ok \in WidgetResults("SetBreakFalse") : WidgetStep("SetBreakFalse", ok, "mab_hold")
  /\ UNCHANGED written

\* Run(): if (m_granularity == GOOD) usleep(DMX_MAB);
MabHold ==
  /\ pcP = "mab_hold"
  /\ HoldStep(DMX_MAB, "write")

\* A Write that sends the published buffer instead of the working copy.
WriteFrame_Published ==
  /\ pcP = "write"
  /\ \E ok \in WidgetResults("Write") : WidgetStep("Write", ok, "framesleep")
  /\ written' = Append(written, m_buffer)

\* Run(): if (!m_widget->Write(buffer)) { err_write++; goto framesleep; }
WriteFrame ==
  /\ pcP = "write"
  /\ \E ok \in WidgetResults("Write") : WidgetStep("Write", ok, "framesleep")
  /\ written' = Append(written, buffer)

\* Run(): framesleep: usleep(m_malft);
FrameSleep ==
  /\ pcP = "framesleep"
  /\ clock' = clock + UsleepElapsed(m_malft)
  /\ cycleLog' = Append(cycleLog, <<"framesleep", m_malft>>)
  /\ pcP' = "housekeeping"
  /\ UNCHANGED <<buffer, cpyP, counters, lastprint, ts1>>
  /\ UNCHANGED overshoot
  /\ UNCHANGED <<cycles, granWrites, pubLog, acqN, acqBuf, written, stopDone,
                 lateOps, termOps, cyclesSinceFlush, failsSinceFlush, report,
                 cyc0, raced>>
  /\ UNCHANGED <<members, prodVars, ctrlVars>>
  /\ UNCHANGED capVars

\* A report printed at the end of every iteration.
FlushDue_EveryCycle(since_lastprint) == TRUE

\* Run(): if (since_lastprint > m_printinterval)
FlushDue(since_lastprint) == since_lastprint > m_printinterval

\* Run(): the housekeeping block: clock.CurrentTime(&now); when more than
\* m_printinterval has passed since lastprint, print the counters and clear
\* them. No statement of the loop adds to frames.
Housekeeping ==
  /\ pcP = "housekeeping"
  /\ LET now == clock
         since_lastprint == now - lastprint
     IN IF FlushDue(since_lastprint)
          THEN /\ lastprint' = now
               /\ report' = [printed |-> TRUE, frames |-> frames,
                             cycles |-> cyclesSinceFlush + 1]
               /\ cyc0' = <<0, 0, 0>>
               /\ err_breakstart' = 0
               /\ err_breakstop' = 0
               /\ err_write' = 0
               /\ frames' = 0
               /\ cyclesSinceFlush' = 0
               /\ failsSinceFlush' = NoFails
          ELSE /\ cyclesSinceFlush' = cyclesSinceFlush + 1
               /\ report' = NoReport
               /\ cyc0' = <<err_breakstart, err_breakstop, err_write>>
               /\ UNCHANGED <<lastprint, counters, failsSinceFlush>>
  /\ pcP' = "term_lock"
  /\ UNCHANGED <<buffer, cpyP, ts1>>
  /\ UNCHANGED <<cycles, cycleLog, granWrites, pubLog, acqN, acqBuf, written,
                 stopDone, lateOps, termOps, raced>>
  /\ UNCHANGED <<members, prodVars, ctrlVars, envVars>>
  /\ UNCHANGED capVars

(* --------------------------- specification ---------------------------- *)

Controller == Start \/ StopCall \/ Destroy \/ StopLock \/ StopSetTerm \/ StopJoin
Producer == WriteDMXCall \/ WriteDMXLock \/ WriteDMXCopy \/ WriteDMXReturn
Pacer ==
  \/ CheckTimeGranularitySleep \/ CheckTimeGranularity
  \/ IsOpenCheck \/ SetupOutput \/ ZeroCounters
  \/ CheckTermLock \/ CheckTerm
  \/ AcquireLock \/ AcquireCopy \/ AcquireUnlock
  \/ BreakStart \/ BreakHold \/ BreakStop \/ MabHold \/ WriteFrame
  \/ FrameSleep \/ Housekeeping

Next == Controller \/ Producer \/ Pacer

Spec == Init /\ [][Next]_vars

\* The scheduler lets every thread that can run do so, Stop() is given
\* m_term_mutex if the mutex is free again and again, and widget calls and
\* sleeps return. Nobody is obliged to call Start(), Stop() or WriteDMX(),
\* but a WriteDMX() that holds the buffer mutex finishes.
Fairness ==
  /\ WF_vars(Pacer)
  /\ SF_vars(StopLock)
  /\ WF_vars(StopSetTerm \/ StopJoin)
  /\ WF_vars(WriteDMXCopy \/ WriteDMXReturn)

FairSpec == InitLive /\ [][Next]_vars /\ Fairness

\* The scheduling of Fairness, and a WriteDMX() that waits for m_buffer_mutex is
\* given it if the mutex is free again and again.
LockFairness ==
  /\ Fairness
  /\ SF_vars(WriteDMXLock)

\* The object of InitLive on a platform whose usleep() sleeps what it is
\* asked to, with a widget that works (iterations run in full) or whose
\* SetBreak(true) fails (iterations are cut short).
LockFaults == {"none", "SetBreakTrue"}
InitLocks ==
  /\ Constructed
  /\ overshoot = 0
  /\ capCycles = LiveCycles
  /\ capPublish = LivePublish
  /\ widgetFault \in LockFaults

FairLockSpec == InitLocks /\ [][Next]_vars /\ LockFairness

\* The calibration alone, for every overshoot of usleep(1000) from none to
\* a little over the threshold.
CalibOvershoots == 0 .. 3100
InitCalib ==
  /\ Constructed
  /\ overshoot \in CalibOvershoots
  /\ capCycles = MaxCycles
  /\ capPublish = MaxPublish
  /\ widgetFault = "any"

NextCalib == Start \/ CheckTimeGranularitySleep \/ CheckTimeGranularity
SpecCalib == InitCalib /\ [][NextCalib]_vars

\* The pacer, never stopped, at the frame time of 23000 microseconds on a
\* platform whose usleep() sleeps what it is asked to, long enough for two
\* reports, with a widget that works or has one steady fault.
CadenceCycles == 88
CadenceMalfTimes == {23000}
InitCadence ==
  /\ \E breakt \in BreakTimes, malft \in CadenceMalfTimes :
       Construct(breakt, malft)
  /\ overshoot = 0
  /\ capCycles = CadenceCycles
  /\ capPublish = LivePublish
  /\ widgetFault \in Faults

NextCadence == Start \/ Producer \/ Pacer
SpecCadence == InitCadence /\ [][NextCadence]_vars

(* ------------------------------ claims -------------------------------- *)

InLoop == pcP \in {"term_lock", "term_check", "buf_lock", "buf_copy",
                   "break_start", "break_hold", "break_stop", "mab_hold",
                   "write", "framesleep", "housekeeping"}
InStop == pcC \in {"stop_lock", "stop_set", "stop_join"}
Ops(log, op) == {i \in 1..Len(log) : log[i][1] = op}
Failed(log, op) == \E i \in 1..Len(log) : log[i] = <<op, FALSE>>

\* C1: once a Stop() on a started thread has returned, the pacer has left
\* its loop (Run() has returned) and no widget call (IsOpen, SetupOutput,
\* SetBreak, Write) is made in any later state.
C1_NoWidgetUseAfterStop ==
  stopDone => /\ pcP = "done"
              /\ lateOps = 0

\* C1 witness: a Stop() that raced with an iteration has returned: the flag
\* was set while the iteration ran, its Write still happened, and the pacer
\* then left.
C1_Witness ==
  /\ stopDone
  /\ pcC = "idle"
  /\ stopRet
  /\ termOps["Write"] = 1
  /\ pcP = "done"

\* The frame that was the latest one published when the pacer took the
\* buffer mutex.
LatestAt(n) == IF n = 0 THEN EmptyFrame ELSE pubLog[n]

\* C2: the frame handed to Write in an iteration is the last of the frames
\* published before that iteration's copy-out (frame number acqN of the
\* publish order), not an earlier one, however many were published since
\* the pacer's previous copy-out.
C2_LatestFrameDelivered ==
  \A i \in 1..Len(written) : written[i] = LatestAt(acqN)

\* C2 witness: two different frames were published before the first
\* copy-out, and the second was handed to Write.
C2_Witness ==
  /\ cycles = 1
  /\ acqN = 2
  /\ pubLog[1] # pubLog[2]
  /\ written = <<pubLog[2]>>

\* C3: every frame handed to Write, and every working buffer the pacer
\* holds after its copy-out, is channel for channel one frame that was
\* published as a whole, or the initial empty buffer.
C3_NoTornFrame ==
  /\ \A i \in 1..Len(written) : written[i] \in Frames \cup {EmptyFrame}
  /\ pcP \in {"break_start", "break_hold", "break_stop", "mab_hold", "write"}
       => buffer \in Frames \cup {EmptyFrame}

\* C3 witness: the copy-out of this iteration met a WriteDMX() in progress
\* (one of the two waited for the mutex), and a whole frame was written.
C3_Witness ==
  /\ raced
  /\ Len(written) = 1
  /\ written[1] \in Frames

\* C4, as claimed: the frames value a report prints is the number of
\* iterations completed since the previous report.
C4_FramesCountsCycles ==
  report.printed => report.frames = report.cycles

\* C5: each error counter holds the number of failures of its own widget
\* call since the last report (so N failures in a row of one call add N to
\* its counter and nothing to the others), and within one iteration the
\* three counters move by at most one in total: by one on the counter of
\* the call that failed, by nothing when none failed.
FailDelta(log) ==
  << IF Failed(log, "SetBreakTrue") THEN 1 ELSE 0,
     IF Failed(log, "SetBreakFalse") THEN 1 ELSE 0,
     IF Failed(log, "Write") THEN 1 ELSE 0 >>
C5_FailureIsolation ==
  /\ err_breakstart = failsSinceFlush["SetBreakTrue"]
  /\ err_breakstop = failsSinceFlush["SetBreakFalse"]
  /\ err_write = failsSinceFlush["Write"]
  /\ (cycles >= 1 /\ pcP \in {"buf_lock", "buf_copy", "break_start",
                              "break_hold", "break_stop", "mab_hold",
                              "write", "framesleep", "housekeeping"})
       => LET d == FailDelta(cycleLog)
          IN /\ err_breakstart = cyc0[1] + d[1]
             /\ err_breakstop = cyc0[2] + d[2]
             /\ err_write = cyc0[3] + d[3]
             /\ d[1] + d[2] + d[3] <= 1

\* C5 witness: SetBreak(false) failed in two iterations in a row with no
\* report in between.
C5_Witness ==
  /\ cycles = 2
  /\ pcP = "housekeeping"
  /\ Failed(cycleLog, "SetBreakFalse")
  /\ cyc0 = <<0, 1, 0>>
  /\ err_breakstart = 0 /\ err_breakstop = 2 /\ err_write = 0

\* C6: after the termination flag is set the pacer begins no iteration, so
\* at most one SetBreak(true), one SetBreak(false) and one Write (those of
\* the iteration under way) follow the setting of the flag, and the pacer,
\* once at the test of the flag, leaves the loop.
C6_BoundedTerminationLatency ==
  /\ [](/\ termOps["pass"] = 0
        /\ termOps["SetBreakTrue"] <= 1
        /\ termOps["SetBreakFalse"] <= 1
        /\ termOps["Write"] <= 1)
  /\ [][(m_term /\ pcP = "term_check" /\ pcP' # pcP) => pcP' = "done"]_vars

\* C6 witness: the flag was set between the test and the copy-out; the
\* whole iteration ran after it and the pacer left at the next test.
C6_Witness ==
  /\ m_term
  /\ pcP = "done"
  /\ termOps["SetBreakTrue"] = 1
  /\ termOps["SetBreakFalse"] = 1
  /\ termOps["Write"] = 1

\* C7: under fair scheduling, with widget calls and sleeps that return,
\* every Stop() on a started thread returns: the first, a later explicit
\* one and the destructor's; and whatever number of Stop() calls follow the
\* first that returned, the pacer stays out of its loop and no widget call
\* is made.
C7_StopAlwaysReturns ==
  /\ (InStop /\ stopStarted) ~> ~InStop
  /\ [][(stopDone /\ InStop) => (pcP' = "done" /\ lateOps' = 0)]_vars

\* C7 witness: the explicit Stop() joined the pacer after it had run, and
\* the destructor's Stop() has returned as well, finding nothing to join.
C7_Witness ==
  /\ pcC = "destroyed"
  /\ nStops = MaxStops
  /\ thrState = "joined"
  /\ ~stopRet
  /\ cycles >= 1
  /\ lateOps = 0

\* C8, as claimed: with T2 - T1 the time the calibration sleep took, in
\* microseconds, the granularity is BAD exactly when T2 - T1 is more than
\* 3000, and GOOD otherwise.
C8_BadIffOver3000us ==
  pcP = "isopen" =>
    LET elapsed == clock - ts1
    IN IF elapsed > threshold * 1000 THEN m_granularity = "BAD"
                                     ELSE m_granularity = "GOOD"

\* One hold of an iteration, as the log records it: after a successful
\* call `op` the pacer is at `at` until the hold is over, and the hold of
\* `d` microseconds comes next in the log exactly when the granularity is
\* GOOD.
HoldAsCalibrated(op, at, d) ==
  \A i \in 1..Len(cycleLog) :
    (cycleLog[i] = <<op, TRUE>> /\ (i < Len(cycleLog) \/ pcP # at)) =>
      IF m_granularity = "GOOD"
        THEN i < Len(cycleLog) /\ cycleLog[i + 1] = <<"usleep", d>>
        ELSE i = Len(cycleLog) \/ cycleLog[i + 1][1] # "usleep"

\* C9: the granularity is UNKNOWN until the thread runs, is assigned once,
\* by the calibration that precedes the loop, and never again; in the loop
\* it is GOOD or BAD; a BAD granularity means no hold is slept, a GOOD one
\* means the break time is slept after every successful SetBreak(true) and
\* the MAB time after every successful SetBreak(false), and no other hold
\* is slept.
C9_CalibrationDeterminism ==
  /\ granWrites <= 1
  /\ (granWrites = 0) <=> (m_granularity = "UNKNOWN")
  /\ pcP \in {"idle", "calib", "calib_slept"} => granWrites = 0
  /\ InLoop => (granWrites = 1 /\ m_granularity \in {"GOOD", "BAD"})
  /\ m_granularity = "BAD" => Ops(cycleLog, "usleep") = {}
  /\ HoldAsCalibrated("SetBreakTrue", "break_hold", m_breakt)
  /\ HoldAsCalibrated("SetBreakFalse", "mab_hold", DMX_MAB)
  /\ Cardinality(Ops(cycleLog, "usleep")) <=
       Cardinality({i \in 1..Len(cycleLog) :
                      cycleLog[i] \in {<<"SetBreakTrue", TRUE>>,
                                       <<"SetBreakFalse", TRUE>>}})

\* C9 witness: on a platform found BAD a whole iteration ran, every widget
\* call succeeded and nothing but the frame time was slept.
C9_Witness ==
  /\ m_granularity = "BAD"
  /\ granWrites = 1
  /\ cycles = 2
  /\ cycleLog = << <<"SetBreakTrue", TRUE>>, <<"SetBreakFalse", TRUE>>,
                   <<"Write", TRUE>>, <<"framesleep", m_malft>> >>

\* C10: an iteration that got past the test of the flag sleeps the frame
\* time exactly once, as its last step before the next test, whether its
\* widget calls succeeded or one of them failed; before that step it has
\* not slept it.
C10_FrameSleepEveryCycle ==
  /\ (cycles >= 1 /\ pcP \in {"housekeeping", "term_lock", "term_check", "done"})
       => /\ Cardinality(Ops(cycleLog, "framesleep")) = 1
          /\ cycleLog[Len(cycleLog)] = <<"framesleep", m_malft>>
  /\ (cycles >= 1 /\ pcP \in {"buf_lock", "buf_copy", "break_start",
                              "break_hold", "break_stop", "mab_hold",
                              "write", "framesleep"})
       => Ops(cycleLog, "framesleep") = {}

\* C10 witness: SetBreak(true) failed, the rest of the iteration was
\* skipped, and the frame time was slept all the same.
C10_Witness ==
  /\ cycles >= 1
  /\ pcP = "term_lock"
  /\ cycleLog = << <<"SetBreakTrue", FALSE>>, <<"framesleep", m_malft>> >>

\* The step of the housekeeping block that prints a report.
FlushStep == pcP = "housekeeping" /\ pcP' = "term_lock" /\ report'.printed

\* C11: at the end of an iteration a report is printed exactly when more
\* than 1,000,000 microseconds have passed since lastprint; right after a
\* report the four counters are zero and lastprint is the time of the
\* report; at a frame time of 23000 microseconds on a platform that sleeps
\* what it is asked to, a report closes 43 or 44 iterations, never more
\* and never fewer; and no step other than a report lowers a counter.
C11_ReportFlushAndReset ==
  /\ [][(pcP = "housekeeping" /\ pcP' # pcP) =>
         (report'.printed <=> clock - lastprint > 1000000)]_vars
  /\ [][FlushStep =>
         /\ frames' = 0 /\ err_breakstart' = 0
         /\ err_breakstop' = 0 /\ err_write' = 0
         /\ lastprint' = clock']_vars
  /\ []((m_malft = 23000 /\ overshoot = 0) =>
          /\ report.printed => report.cycles \in 43..44
          /\ cyclesSinceFlush <= 43)
  /\ [][FlushStep \/
         (/\ frames' >= frames /\ err_breakstart' >= err_breakstart
          /\ err_breakstop' >= err_breakstop /\ err_write' >= err_write)]_vars

\* C11 witness: SetBreak(true) failed in every iteration, so nothing but
\* the frame time was slept; the second report has just been printed, at
\* the end of iteration 88, 44 iterations after the first, and cleared a
\* break-start count of 44.
C11_Witness ==
  /\ widgetFault = "SetBreakTrue"
  /\ m_malft = 23000 /\ overshoot = 0
  /\ pcP = "term_lock"
  /\ cycles = 88
  /\ report.printed /\ report.cycles = 44
  /\ failsSinceFlush = NoFails
  /\ err_breakstart = 0 /\ err_breakstop = 0 /\ err_write = 0 /\ frames = 0
  /\ lastprint = clock

\* C12: Run() returns only from the test of the flag, with the flag set:
\* the pacer is never past its loop while m_term is false, a step that
\* takes it out of the loop starts at the test with m_term true, every
\* other step of the loop (after a failed SetBreak or Write as after a
\* successful one) leaves it in the loop, and SetupOutput(), failed or
\* not, is followed by the loop.
C12_NoErrorIsFatal ==
  /\ [](pcP = "done" => m_term)
  /\ [][(pcP # "done" /\ pcP' = "done") =>
         (pcP = "term_check" /\ m_term)]_vars
  /\ [][(InLoop /\ pcP' # pcP) => (InLoop' \/ pcP' = "done")]_vars
  /\ [][(pcP = "setup" /\ pcP' # pcP) => pcP' = "zero"]_vars

\* C12 witness: SetBreak(true) failed in the first iteration and in the
\* second, no report cleared the count, the flag is not set and the pacer
\* is back at the top of its loop.
C12_Witness ==
  /\ ~m_term
  /\ pcP = "term_lock"
  /\ cycles = 2
  /\ Failed(cycleLog, "SetBreakTrue")
  /\ cyc0 = <<2, 0, 0>>
  /\ err_breakstart = 2

\* C13, as claimed: no step of a Stop() on a thread that was never started
\* changes the termination flag, the granularity or the published buffer,
\* and the call returns failure.
C13_StopBeforeStartHarmless ==
  /\ [][(InStop /\ ~stopStarted /\ pcC' # pcC) =>
         /\ m_term' = m_term
         /\ m_granularity' = m_granularity
         /\ m_buffer' = m_buffer]_vars
  /\ [][(pcC = "stop_join" /\ ~stopStarted /\ pcC' # pcC) =>
         stopRet' = FALSE]_vars

\* C14: m_term is false until a Stop() has been entered; only the
\* assignment inside Stop() (reached by an explicit call or through the
\* destructor) changes it; once true it stays true, so it goes from false
\* to true at most once, and has done so by the time the object is
\* destroyed; no step of the pacer changes it.
C14_TermFlagMonotone ==
  /\ []((nStops = 0 /\ ~inDtor) => ~m_term)
  /\ [](pcC = "destroyed" => m_term)
  /\ [][m_term => m_term']_vars
  /\ [][m_term' # m_term => (pcC = "stop_set" /\ pcC' = "stop_join")]_vars
  /\ [][pcP' # pcP => m_term' = m_term]_vars

\* C14 witness: an explicit Stop() set the flag while an iteration ran, the
\* pacer read it at its next test and left, and the destructor's Stop()
\* wrote it once more: it is still true.
C14_Witness ==
  /\ m_term
  /\ pcC = "destroyed"
  /\ nStops = 1
  /\ pcP = "done"
  /\ termOps["SetBreakTrue"] = 1

\* C15: a WriteDMX() that returns, returns true, wherever the pacer is
\* (not started, in its loop, or past it); and no step of WriteDMX()
\* changes the working buffer, the termination flag, the granularity or
\* the four counters, or makes a widget call.
C15_PublishOnlyPublishes ==
  /\ [][(pcW # "idle" /\ pcW' = "idle") => wRet' = TRUE]_vars
  /\ [][(pcW' # pcW \/ cpyW' # cpyW) =>
         /\ buffer' = buffer
         /\ m_term' = m_term
         /\ m_granularity' = m_granularity
         /\ counters' = counters
         /\ cycleLog' = cycleLog
         /\ termOps' = termOps
         /\ lateOps' = lateOps]_vars

\* C15 witness: the pacer has left its loop and has been joined; the two
\* WriteDMX() calls, both after the pacer's only copy-out, returned true;
\* the published buffer holds the second frame and the working buffer is
\* still the empty one the pacer copied.
C15_Witness ==
  /\ pcP = "done"
  /\ thrState = "joined"
  /\ pcW = "idle"
  /\ wRet
  /\ cycles = 1
  /\ acqN = 0
  /\ Len(pubLog) = 2
  /\ m_buffer = pubLog[2]
  /\ buffer = EmptyFrame

\* The SetBreak and Write calls of the current iteration, in the order made.
IsPacingCall(e) == e[1] \in {"SetBreakTrue", "SetBreakFalse", "Write"}
PacingCalls == SelectSeq(cycleLog, IsPacingCall)
PacingOrder == <<"SetBreakTrue", "SetBreakFalse", "Write">>

\* C16: the SetBreak and Write calls of one iteration are, in order, a
\* prefix of SetBreak(true), SetBreak(false), Write, each made at most
\* once, and every call but the last made has succeeded: so
\* SetBreak(false) follows only a successful SetBreak(true), Write only a
\* successful SetBreak(false), and nothing follows a failed call.
C16_StepOrdering ==
  /\ Len(PacingCalls) <= 3
  /\ \A i \in 1..Len(PacingCalls) :
       /\ PacingCalls[i][1] = PacingOrder[i]
       /\ i < Len(PacingCalls) => PacingCalls[i][2] = TRUE

\* C16 witness: SetBreak(true) succeeded and the break was held,
\* SetBreak(false) failed, and the iteration went to its frame sleep
\* without a Write.
C16_Witness ==
  /\ pcP = "housekeeping"
  /\ cycleLog = << <<"SetBreakTrue", TRUE>>, <<"usleep", m_breakt>>,
                   <<"SetBreakFalse", FALSE>>, <<"framesleep", m_malft>> >>
  /\ written = << >>

\* C17: the frame handed to Write in an iteration is the value m_buffer had
\* when that iteration took the buffer mutex for its copy-out, and from
\* the end of the copy-out to the Write the working buffer holds that
\* value, whatever is published in the meantime.
C17_AcquireSnapshot ==
  /\ \A i \in 1..Len(written) : written[i] = acqBuf
  /\ pcP \in {"break_start", "break_hold", "break_stop", "mab_hold", "write"}
       => buffer = acqBuf

\* C17 witness: a second, different frame was published after this
\* iteration's copy-out; the published buffer holds it, and the Write sent
\* the first.
C17_Witness ==
  /\ acqN = 1
  /\ Len(pubLog) = 2
  /\ pubLog[1] # pubLog[2]
  /\ m_buffer = pubLog[2]
  /\ acqBuf = pubLog[1]
  /\ written = <<pubLog[1]>>

\* C18: no thread holds m_term_mutex and m_buffer_mutex together; each
\* mutex is held only inside its own short critical section (the test of
\* the flag, the copy-out, the assignment in Stop(), the copy in
\* WriteDMX()), so never across a sleep, a widget call or Join(); and with
\* the three threads interleaved under fair scheduling every thread that
\* waits for a mutex gets it.
C18_LockDiscipline ==
  /\ [](~(m_term_mutex = "pacer" /\ m_buffer_mutex = "pacer"))
  /\ [](m_term_mutex = "pacer" <=> pcP = "term_check")
  /\ [](m_buffer_mutex = "pacer" <=> pcP = "buf_copy")
  /\ [](m_term_mutex = "ctrl" <=> pcC = "stop_set")
  /\ [](m_buffer_mutex = "producer" <=> pcW = "copy")
  /\ (pcC = "stop_lock") ~> (pcC = "stop_set")
  /\ (pcW = "lock") ~> (pcW = "copy")
  /\ (pcP = "term_lock" /\ (cycles < capCycles \/ m_term))
       ~> (pcP = "term_check")
  /\ (pcP = "buf_lock") ~> (pcP = "buf_copy")

\* C18 witness: the copy-out and a WriteDMX() met at m_buffer_mutex and one
\* of them waited, Stop() and the test of the flag shared m_term_mutex, and
\* all three threads are through: both mutexes are free.
C18_Witness ==
  /\ raced
  /\ pcP = "done"
  /\ stopDone /\ pcC = "idle"
  /\ pcW = "idle" /\ wRet
  /\ m_term_mutex = "none" /\ m_buffer_mutex = "none"

\* C19: when the flag is set while no iteration has begun, none ever
\* begins; while none has begun no SetBreak and no Write has been made, no
\* frame time slept and no report printed; and a pacer that leaves without
\* an iteration has still run the calibration and asked IsOpen(), with
\* SetupOutput() after it when the widget was not open.
C19_StopDuringStartup ==
  /\ [][(m_term /\ cycles = 0) => cycles' = 0]_vars
  /\ [](cycles = 0 =>
          /\ PacingCalls = << >>
          /\ Ops(cycleLog, "framesleep") = {}
          /\ Ops(cycleLog, "usleep") = {}
          /\ written = << >>
          /\ ~report.printed
          /\ clock <= UsleepElapsed(CalibSleep))
  /\ []((pcP = "done" /\ cycles = 0) =>
          /\ granWrites = 1
          /\ m_granularity \in {"GOOD", "BAD"}
          /\ cycleLog \in {<< <<"IsOpen", TRUE>> >>}
                \cup {<< <<"IsOpen", FALSE>>, <<"SetupOutput", ok>> >> :
                        ok \in BOOLEAN})

\* C19 witness: Stop() set the flag during the start-up, after IsOpen() and
\* before SetupOutput(); the setup was made all the same, the pacer left at
\* its first test and Stop() has returned: no iteration ran.
C19_Witness ==
  /\ m_term
  /\ stopDone
  /\ pcP = "done"
  /\ cycles = 0
  /\ granWrites = 1
  /\ termOps["IsOpen"] = 0
  /\ termOps["SetupOutput"] = 1
  /\ cycleLog = << <<"IsOpen", FALSE>>, <<"SetupOutput", FALSE>> >>

====
